---- MODULE Spec2Model ----
(***************************************************************************)
(* Model of the pairrot solver: Hangul decomposition, the six hints, the   *)
(* candidate store of Solver and the BruteForce / MaximumEntropy /         *)
(* Combined solvers.                                                       *)
(*                                                                         *)
(* Characters are modelled by their Unicode code points (integers): a      *)
(* syllable is one integer, a word is a tuple of integers, a jamo is the   *)
(* code point of the compatibility jamo, and a hint name is the tuple of   *)
(* the code points of its Korean spelling.  The empty jongsung "" is 0.    *)
(***************************************************************************)
EXTENDS Integers, Sequences, FiniteSets, TLC

(***************************************************************************)
(* Bounds of the model.                                                    *)
(***************************************************************************)
\* number of words of VocabPool loaded as the vocabulary
VocabSize == 4
\* number of most recent guesses kept in the modelled history of solve
MaxHistory == 6

(***************************************************************************)
(* pairrot/constants.py                                                    *)
(***************************************************************************)
BASE_CODE == 44032
NUM_SYLLABLES == 11172
CHOSUNG_BASE_CODE == 588
JUNGSUNG_BASE_CODE == 28

CHOSUNGS ==
    <<12593, 12594, 12596, 12599, 12600, 12601, 12609, 12610, 12611, 12613,
      12614, 12615, 12616, 12617, 12618, 12619, 12620, 12621, 12622>>

JUNGSUNGS ==
    <<12623, 12624, 12625, 12626, 12627, 12628, 12629, 12630, 12631, 12632,
      12633, 12634, 12635, 12636, 12637, 12638, 12639, 12640, 12641, 12642,
      12643>>

JONGSUNGS ==
    <<0, 12593, 12594, 12595, 12596, 12597, 12598, 12599, 12601, 12602,
      12603, 12604, 12605, 12606, 12607, 12608, 12609, 12610, 12612, 12613,
      12614, 12615, 12616, 12618, 12619, 12620, 12621, 12622>>

JUNGSUNG_SPLIT_MAP ==
    (12632 :> <<12631, 12623>>) @@ (12633 :> <<12631, 12624>>) @@
    (12634 :> <<12631, 12643>>) @@ (12637 :> <<12636, 12627>>) @@
    (12638 :> <<12636, 12628>>) @@ (12639 :> <<12636, 12643>>) @@
    (12642 :> <<12641, 12643>>)

JONGSUNG_SPLIT_MAP ==
    (12595 :> <<12593, 12613>>) @@ (12597 :> <<12596, 12616>>) @@
    (12598 :> <<12596, 12622>>) @@ (12602 :> <<12601, 12593>>) @@
    (12603 :> <<12601, 12609>>) @@ (12604 :> <<12601, 12610>>) @@
    (12605 :> <<12601, 12613>>) @@ (12606 :> <<12601, 12620>>) @@
    (12607 :> <<12601, 12621>>) @@ (12608 :> <<12601, 12622>>) @@
    (12612 :> <<12610, 12613>>)

INDEX_BY_POSITION == [first |-> 0, second |-> 1]

\* sagwa, banana, gaji, maneul, beoseot, danggeun
HINT_BY_NAME ==
    (<<49324, 44284>> :> "Apple") @@ (<<48148, 45208, 45208>> :> "Banana") @@
    (<<44032, 51648>> :> "Eggplant") @@ (<<47560, 45720>> :> "Garlic") @@
    (<<48260, 49455>> :> "Mushroom") @@ (<<45817, 44540>> :> "Carrot")

HintNames == DOMAIN HINT_BY_NAME

(***************************************************************************)
(* pairrot/hangul/utils.py: decomposition of one syllable into jamos       *)
(***************************************************************************)
is_hangul(syllable) ==
    BASE_CODE <= syllable /\ syllable < BASE_CODE + NUM_SYLLABLES

extract_chosung(syllable) ==
    LET code == syllable - BASE_CODE
        index == code \div CHOSUNG_BASE_CODE
    IN  CHOSUNGS[index + 1]

extract_jungsung(syllable) ==
    LET code == syllable - BASE_CODE
        index == (code % CHOSUNG_BASE_CODE) \div JUNGSUNG_BASE_CODE
    IN  JUNGSUNGS[index + 1]

decompose_jungsung(jungsung) ==
    IF jungsung \in DOMAIN JUNGSUNG_SPLIT_MAP
    THEN JUNGSUNG_SPLIT_MAP[jungsung]
    ELSE <<jungsung>>

extract_jongsung(syllable) ==
    LET code == syllable - BASE_CODE
        index == code % JUNGSUNG_BASE_CODE
    IN  JONGSUNGS[index + 1]

\* a final consonant returned whole, compound or not
decompose_jongsung_Whole(jongsung) ==
    IF jongsung # 0 THEN <<jongsung>> ELSE <<>>

decompose_jongsung(jongsung) ==
    IF jongsung # 0
    THEN IF jongsung \in DOMAIN JONGSUNG_SPLIT_MAP
         THEN JONGSUNG_SPLIT_MAP[jongsung]
         ELSE <<jongsung>>
    ELSE <<>>

\* The ValueError of a non-Hangul input is the empty tuple, which no
\* syllable decomposes to.
decompose_hangul(syllable) ==
    IF ~is_hangul(syllable)
    THEN <<>>
    ELSE <<extract_chosung(syllable)>>
         \o decompose_jungsung(extract_jungsung(syllable))
         \o decompose_jongsung(extract_jongsung(syllable))

SeqToSet(seq) == {seq[k] : k \in DOMAIN seq}

\* set(decompose_hangul(syllable))
jamo_set(syllable) == SeqToSet(decompose_hangul(syllable))

(***************************************************************************)
(* pairrot/hints.py: the six hints.  A hint instance is a record of its    *)
(* class, its reference syllable and the indices fixed by its position.    *)
(***************************************************************************)
intersection(x, y) == x \cap y

Hint(cls, syllable, position) ==
    [cls |-> cls, syllable |-> syllable,
     index_direct |-> INDEX_BY_POSITION[position],
     index_indirect |-> 1 - INDEX_BY_POSITION[position]]

has_common_jamo(standard, syllable) ==
    Cardinality(intersection(jamo_set(standard), jamo_set(syllable))) > 0

\* the count of jamos that stand at the same place of the two decompositions
has_single_common_jamo_Positional(standard, syllable_direct) ==
    Cardinality({k \in DOMAIN decompose_hangul(standard)
                          \cap DOMAIN decompose_hangul(syllable_direct) :
        decompose_hangul(standard)[k] = decompose_hangul(syllable_direct)[k]}) = 1

has_single_common_jamo(standard, syllable_direct) ==
    Cardinality(intersection(jamo_set(standard), jamo_set(syllable_direct))) = 1

has_multiple_common_jamos(standard, syllable_direct) ==
    Cardinality(intersection(jamo_set(standard), jamo_set(syllable_direct))) >= 2

is_equal_syllable(standard, syllable_direct) == standard = syllable_direct

has_equal_chosung(standard, syllable_direct) ==
    decompose_hangul(standard)[1] = decompose_hangul(syllable_direct)[1]

Apple(syllable, syllable_direct, syllable_indirect) ==
    /\ ~has_common_jamo(syllable, syllable_direct)
    /\ ~has_common_jamo(syllable, syllable_indirect)

Banana(syllable, syllable_direct, syllable_indirect) ==
    /\ ~has_common_jamo(syllable, syllable_direct)
    /\ has_common_jamo(syllable, syllable_indirect)

\* Eggplant accepting any direct syllable that shares a jamo
Eggplant_AnyCommon(syllable, syllable_direct, syllable_indirect) ==
    has_common_jamo(syllable, syllable_direct)

Eggplant(syllable, syllable_direct, syllable_indirect) ==
    has_single_common_jamo(syllable, syllable_direct)

Garlic(syllable, syllable_direct, syllable_indirect) ==
    /\ has_multiple_common_jamos(syllable, syllable_direct)
    /\ ~is_equal_syllable(syllable, syllable_direct)
    /\ ~has_equal_chosung(syllable, syllable_direct)

\* Mushroom without the test that the direct syllable differs
Mushroom_AllowEqual(syllable, syllable_direct, syllable_indirect) ==
    /\ has_multiple_common_jamos(syllable, syllable_direct)
    /\ has_equal_chosung(syllable, syllable_direct)

Mushroom(syllable, syllable_direct, syllable_indirect) ==
    /\ has_multiple_common_jamos(syllable, syllable_direct)
    /\ ~is_equal_syllable(syllable, syllable_direct)
    /\ has_equal_chosung(syllable, syllable_direct)

\* Carrot comparing the reference with the indirect syllable
Carrot_Indirect(syllable, syllable_direct, syllable_indirect) ==
    is_equal_syllable(syllable, syllable_indirect)

Carrot(syllable, syllable_direct, syllable_indirect) ==
    is_equal_syllable(syllable, syllable_direct)

\* hint(syllable_direct, syllable_indirect): dispatch on the hint's class
HintCall(hint, syllable_direct, syllable_indirect) ==
    CASE hint.cls = "Apple" -> Apple(hint.syllable, syllable_direct, syllable_indirect)
      [] hint.cls = "Banana" -> Banana(hint.syllable, syllable_direct, syllable_indirect)
      [] hint.cls = "Eggplant" -> Eggplant(hint.syllable, syllable_direct, syllable_indirect)
      [] hint.cls = "Garlic" -> Garlic(hint.syllable, syllable_direct, syllable_indirect)
      [] hint.cls = "Mushroom" -> Mushroom(hint.syllable, syllable_direct, syllable_indirect)
      [] hint.cls = "Carrot" -> Carrot(hint.syllable, syllable_direct, syllable_indirect)

can_be_answer(hint, word) ==
    LET syllable_direct == word[hint.index_direct + 1]
        syllable_indirect == word[hint.index_indirect + 1]
    IN  HintCall(hint, syllable_direct, syllable_indirect)

\* the hint classes in the order of their declaration
HintClasses == <<"Apple", "Banana", "Eggplant", "Garlic", "Mushroom", "Carrot">>

(***************************************************************************)
(* pairrot.utils.compute_hint_pair: for each position the six hint classes *)
(* are built from the guessed syllable and the first one that accepts the  *)
(* true word is returned.  A position with no accepting class yields the   *)
(* class "None", which stands for the raised error.                        *)
(***************************************************************************)
NoHint == "None"

RECURSIVE first_compatible(_, _, _, _)
first_compatible(k, syllable, position, true) ==
    IF k > Len(HintClasses)
    THEN Hint(NoHint, syllable, position)
    ELSE IF can_be_answer(Hint(HintClasses[k], syllable, position), true)
         THEN Hint(HintClasses[k], syllable, position)
         ELSE first_compatible(k + 1, syllable, position, true)

compute_hint_pair(true, pred) ==
    <<first_compatible(1, pred[1], "first", true),
      first_compatible(1, pred[2], "second", true)>>

\* the classes of the two hints of a pair
HintPairClasses(pair) == <<pair[1].cls, pair[2].cls>>

\* the classes whose hint, built from pred at the position, accepts true
compatible_classes(syllable, position, true) ==
    {HintClasses[k] : k \in
        {j \in DOMAIN HintClasses :
            can_be_answer(Hint(HintClasses[j], syllable, position), true)}}

(***************************************************************************)
(* The vocabulary (pairrot/vocab.py).  _VOCAB is the word-to-label mapping *)
(* read back from the file that update_vocab wrote with sorted keys.       *)
(***************************************************************************)
\* gosu, maksang, malgeum, mangsang, bomul, agma
VocabPool ==
    << <<44256, 49688>>, <<47561, 49345>>, <<47569, 51020>>,
       <<47581, 49345>>, <<48372, 47932>>, <<50501, 47560>> >>

LabelPool ==
    <<"possible", "possible", "maybe_possible",
      "impossible", "possible", "maybe_impossible">>

\* the keys of _VOCAB in their order
VOCAB == SubSeq(VocabPool, 1, VocabSize)

\* _VOCAB[word]
Label(word) ==
    LabelPool[CHOOSE k \in 1..VocabSize : VocabPool[k] = word]

(***************************************************************************)
(* pairrot/solver.py: Solver                                               *)
(***************************************************************************)
\* the filter keeping a word that either hint accepts
filter_candidates_Either(cands, first_hint, second_hint) ==
    SelectSeq(cands, LAMBDA word :
        can_be_answer(first_hint, word) \/ can_be_answer(second_hint, word))

\* the filter losing the first word it keeps
filter_candidates_SkipFirst(cands, first_hint, second_hint) ==
    LET kept == SelectSeq(cands, LAMBDA word :
                    can_be_answer(first_hint, word) /\ can_be_answer(second_hint, word))
    IN  SubSeq(kept, 2, Len(kept))

filter_candidates(cands, first_hint, second_hint) ==
    SelectSeq(cands, LAMBDA word :
        can_be_answer(first_hint, word) /\ can_be_answer(second_hint, word))

\* feedback filtering the whole vocabulary instead of the current candidates
feedback_FromVocab(cands, pred, first_hint_name, second_hint_name) ==
    IF Len(pred) # 2
    THEN [raised |-> "ValueError", candidates |-> cands]
    ELSE IF ~(is_hangul(pred[1]) /\ is_hangul(pred[2]))
    THEN [raised |-> "ValueError", candidates |-> cands]
    ELSE [raised |-> "None",
          candidates |-> filter_candidates(VOCAB,
              Hint(HINT_BY_NAME[first_hint_name], pred[1], "first"),
              Hint(HINT_BY_NAME[second_hint_name], pred[2], "second"))]

\* feedback checking the second syllable only after it has filtered the
\* candidates with the first hint
feedback_LateCheck(cands, pred, first_hint_name, second_hint_name) ==
    IF Len(pred) # 2
    THEN [raised |-> "ValueError", candidates |-> cands]
    ELSE IF ~is_hangul(pred[1])
    THEN [raised |-> "ValueError", candidates |-> cands]
    ELSE IF ~is_hangul(pred[2])
    THEN [raised |-> "ValueError",
          candidates |-> SelectSeq(cands, LAMBDA word :
              can_be_answer(Hint(HINT_BY_NAME[first_hint_name], pred[1], "first"),
                            word))]
    ELSE [raised |-> "None",
          candidates |-> filter_candidates(cands,
              Hint(HINT_BY_NAME[first_hint_name], pred[1], "first"),
              Hint(HINT_BY_NAME[second_hint_name], pred[2], "second"))]

\* Solver.feedback: the raised error ("None" when it returns) and the
\* candidate list the solver holds afterwards
feedback(cands, pred, first_hint_name, second_hint_name) ==
    IF Len(pred) # 2
    THEN [raised |-> "ValueError", candidates |-> cands]
    ELSE IF ~(is_hangul(pred[1]) /\ is_hangul(pred[2]))
    THEN [raised |-> "ValueError", candidates |-> cands]
    ELSE LET first_hint == Hint(HINT_BY_NAME[first_hint_name], pred[1], "first")
             second_hint == Hint(HINT_BY_NAME[second_hint_name], pred[2], "second")
         IN  [raised |-> "None",
              candidates |-> filter_candidates(cands, first_hint, second_hint)]

\* Solver.feedback_pumpkin_hint
pumpkin_candidates(cands, jamo) ==
    SelectSeq(cands, LAMBDA word :
        jamo \in (jamo_set(word[1]) \cup jamo_set(word[2])))

(***************************************************************************)
(* pairrot/solver.py: BruteForceSolver.  A mean score is kept exactly as   *)
(* the pair of the total and the number of scores of the word.             *)
(***************************************************************************)
RECURSIVE SumSeq(_)
SumSeq(seq) == IF seq = <<>> THEN 0 ELSE Head(seq) + SumSeq(Tail(seq))

\* Python's str comparison a < b on words of two characters
word_less(a, b) == a[1] < b[1] \/ (a[1] = b[1] /\ a[2] < b[2])

mean_less(x, y) == x.total * y.count < y.total * x.count

mean_equal(x, y) == x.total * y.count = y.total * x.count

\* _compute_score: the number of candidates the hint pair leaves; -1 stands
\* for the error compute_hint_pair raised instead of returning a pair
compute_score(cands, pair) ==
    IF pair[1].cls = NoHint \/ pair[2].cls = NoHint
    THEN -1
    ELSE Len(filter_candidates(cands, pair[1], pair[2]))

\* _update_score
update_score(cands, true, pred) ==
    compute_score(cands, compute_hint_pair(true, pred))

\* _update_scores: word2scores[pred] is the list of scores of pred against
\* each true_assumed in candidate order
word2scores(cands, pred) ==
    [k \in DOMAIN cands |-> update_score(cands, cands[k], pred)]

\* the items (word, word2scores[word]) in the order the words were inserted
scores_by_word(cands) ==
    [k \in DOMAIN cands |->
        [word |-> cands[k], scores |-> word2scores(cands, cands[k])]]

\* _reduce_scores_by_word: the items (word, mean) sorted by (mean, word)
reduce_scores_by_word(items) ==
    SortSeq([k \in DOMAIN items |->
                [word |-> items[k].word,
                 total |-> SumSeq(items[k].scores),
                 count |-> Len(items[k].scores)]],
            LAMBDA x, y :
                mean_less(x, y) \/ (mean_equal(x, y) /\ word_less(x.word, y.word)))

\* whether compute_hint_pair raised while the scores were collected
scores_raised(items) ==
    \E k \in DOMAIN items : \E j \in DOMAIN items[k].scores :
        items[k].scores[j] < 0

\* what suggest leaves in word2mean_score: the reduced scores, or the dict
\* emptied by _clear when _update_scores raised
bruteforce_scores(items) ==
    IF scores_raised(items) THEN <<>> ELSE reduce_scores_by_word(items)

(***************************************************************************)
(* What an operation returns or raises                                     *)
(***************************************************************************)
\* by: the class whose suggest produced the result
NoReturn == [raised |-> "None", word |-> <<>>, total |-> 0, count |-> 1,
             history |-> <<>>, by |-> "None"]

By(cls, result) == [result EXCEPT !.by = cls]

Raise(error) == [NoReturn EXCEPT !.raised = error]

Return(word, total, count) ==
    [NoReturn EXCEPT !.word = word, !.total = total, !.count = count]

\* the index of the last item that no item is smaller than
index_of_min_Last(items) ==
    CHOOSE k \in DOMAIN items :
        /\ \A j \in DOMAIN items : ~mean_less(items[j], items[k])
        /\ \A j \in (k + 1)..Len(items) : mean_less(items[k], items[j])

\* the index of the first item, in the order of the dict, that no item is
\* smaller than
index_of_min(items) ==
    CHOOSE k \in DOMAIN items :
        /\ \A j \in DOMAIN items : ~mean_less(items[j], items[k])
        /\ \A j \in 1..(k - 1) : mean_less(items[k], items[j])

\* BruteForceSolver._select: min(d, key=d.get), ValueError on an empty dict
bruteforce_select(items) ==
    IF items = <<>>
    THEN Raise("ValueError")
    ELSE Return(items[index_of_min(items)].word,
                items[index_of_min(items)].total,
                items[index_of_min(items)].count)

(***************************************************************************)
(* pairrot/solver.py: MaximumEntropySolver, and the jamo frequencies of    *)
(* pairrot/hangul/utils.py                                                 *)
(***************************************************************************)
count_in(seq, x) == Cardinality({k \in DOMAIN seq : seq[k] = x})

\* Counter(jamos)[jamo] over both syllables of the k-th word on
RECURSIVE frequency_from(_, _, _)
frequency_from(k, words, jamo) ==
    IF k > Len(words)
    THEN 0
    ELSE count_in(decompose_hangul(words[k][1]), jamo)
         + count_in(decompose_hangul(words[k][2]), jamo)
         + frequency_from(k + 1, words, jamo)

get_frequency_by_jamo(words, jamo) == frequency_from(1, words, jamo)

RECURSIVE SumFrequency(_, _)
SumFrequency(words, jamos) ==
    IF jamos = {}
    THEN 0
    ELSE LET j == CHOOSE x \in jamos : TRUE
         IN  get_frequency_by_jamo(words, j) + SumFrequency(words, jamos \ {j})

compute_jamo_frequency_score(word, words) ==
    SumFrequency(words, jamo_set(word[1]) \cup jamo_set(word[2]))

\* word2jamo_score[word] of the k-th candidate
word2jamo_score(cands, k) == compute_jamo_frequency_score(cands[k], cands)

\* max(d, key=d.get) over the candidates from the k-th on: the first word,
\* in candidate order, that no word scores higher than
RECURSIVE max_from(_, _)
max_from(k, cands) ==
    IF k = Len(cands)
    THEN Return(cands[k], word2jamo_score(cands, k), 1)
    ELSE IF word2jamo_score(cands, k) >= max_from(k + 1, cands).total
    THEN Return(cands[k], word2jamo_score(cands, k), 1)
    ELSE max_from(k + 1, cands)

\* MaximumEntropySolver._select, ValueError on an empty dict
max_entropy_select(cands) ==
    IF cands = <<>> THEN Raise("ValueError") ELSE max_from(1, cands)

(***************************************************************************)
(* State                                                                   *)
(***************************************************************************)
VARIABLES
    kind,               \* the class of the solver object
    threshold,          \* CombinedSolver.threshold
    vocab,              \* self.vocab
    candidates,         \* self.candidates
    num_candidates,     \* self.num_candidates
    bf_candidates,      \* self.bruteforce_solver.candidates
    bf_num_candidates,  \* self.bruteforce_solver.num_candidates
    me_candidates,      \* self.max_entropy_solver.candidates
    me_num_candidates,  \* self.max_entropy_solver.num_candidates
    word2mean_score,    \* word2mean_score of the brute-force solver
    pc,                 \* "idle", or the position inside solve
    answer,             \* solve's argument
    history,            \* solve's local history (its last MaxHistory items)
    best_word,          \* solve's local best_word
    lastOp,             \* the operation that ran last
    args,               \* its arguments
    ret,                \* what it returned or raised
    query,              \* the (true, pred) a hint pair was last computed for
    compat,             \* the classes accepting true, per position
    hint_pair,          \* the classes compute_hint_pair returned (a local
                        \* of solve, or the result of the probe)
    filtered,           \* _filter_candidates(first_hint, second_hint) of
                        \* the probed pair
    the_syllable,       \* the argument of decompose_hangul (0: none)
    jamos               \* the tuple decompose_hangul returned

solverVars ==
    <<kind, threshold, vocab, candidates, num_candidates, bf_candidates,
      bf_num_candidates, me_candidates, me_num_candidates, word2mean_score>>

solveVars == <<pc, answer, history, best_word>>

callVars == <<lastOp, args, ret>>

probeVars == <<query, compat, hint_pair, filtered>>

codecVars == <<the_syllable, jamos>>

vars == <<solverVars, solveVars, callVars, probeVars, codecVars>>

NoArgs == [pred |-> <<>>, first |-> <<>>, second |-> <<>>, jamo |-> 0]

Kinds == {"BruteForceSolver", "MaximumEntropySolver", "CombinedSolver"}

\* thresholds a CombinedSolver is constructed with (500 is the default)
Thresholds == {2, 500}

\* malg: one syllable; malg-eum-malg: three; "A"-eum: not Hangul;
\* malg-giyeok: a jamo is not a syllable; the empty string
InvalidPreds ==
    {<<47569>>, <<47569, 51020, 47569>>, <<65, 51020>>, <<47569, 12593>>, <<>>}

\* guksu, a well-formed word outside the vocabulary
OtherWords == {<<44397, 49688>>}

Words == SeqToSet(VOCAB) \cup OtherWords

\* giyeok, mieum, a, u, ieung
PumpkinJamos == {12593, 12609, 12623, 12636, 12615}

\* sagwa
AppleName == <<49324, 44284>>

(***************************************************************************)
(* Solver.__init__ and the constructors of the three solvers               *)
(***************************************************************************)
Construct(k, t) ==
    /\ kind = k
    /\ threshold = t
    /\ vocab = VOCAB
    /\ candidates = VOCAB
    /\ num_candidates = Len(VOCAB)
    /\ bf_candidates = IF k = "CombinedSolver" THEN VOCAB ELSE <<>>
    /\ bf_num_candidates = IF k = "CombinedSolver" THEN Len(VOCAB) ELSE 0
    /\ me_candidates = IF k = "CombinedSolver" THEN VOCAB ELSE <<>>
    /\ me_num_candidates = IF k = "CombinedSolver" THEN Len(VOCAB) ELSE 0
    /\ word2mean_score = <<>>
    /\ pc = "idle"
    /\ answer = <<>>
    /\ history = <<>>
    /\ best_word = <<>>
    /\ lastOp = "init"
    /\ args = NoArgs
    /\ ret = NoReturn

ProbeInit ==
    /\ query = <<>>
    /\ compat = <<>>
    /\ hint_pair = <<>>
    /\ filtered = <<>>
    /\ the_syllable = 0
    /\ jamos = <<>>

Init ==
    /\ \/ \E k \in Kinds \ {"CombinedSolver"} : Construct(k, 0)
       \/ \E t \in Thresholds : Construct("CombinedSolver", t)
    /\ ProbeInit

(***************************************************************************)
(* Operations of the solver object                                         *)
(***************************************************************************)
\* the brute-force solver chosen only below the threshold
use_bruteforce_Strict == num_candidates < threshold

\* CombinedSolver._use_bruteforce
use_bruteforce == num_candidates <= threshold

\* higher_is_better of the object's class
higher_is_better ==
    CASE kind = "BruteForceSolver" -> FALSE
      [] kind = "MaximumEntropySolver" -> TRUE
      [] kind = "CombinedSolver" -> ~use_bruteforce

\* whether self.suggest() runs BruteForceSolver.suggest
suggest_by_bruteforce ==
    \/ kind = "BruteForceSolver"
    \/ kind = "CombinedSolver" /\ use_bruteforce

\* the candidate list self.suggest() scores: the solver's own, or that of
\* the sub-solver CombinedSolver.suggest delegates to
suggest_candidates ==
    IF kind = "CombinedSolver"
    THEN IF use_bruteforce THEN bf_candidates ELSE me_candidates
    ELSE candidates

\* self.suggest(): BruteForceSolver.suggest stores word2mean_score and
\* selects from it; MaximumEntropySolver.suggest only selects
SuggestEffect ==
    /\ word2mean_score' =
          IF suggest_by_bruteforce
          THEN bruteforce_scores(scores_by_word(suggest_candidates))
          ELSE word2mean_score
    /\ ret' =
          IF suggest_by_bruteforce
          THEN By("BruteForceSolver",
                  IF word2mean_score' = <<>> /\ suggest_candidates # <<>>
                  THEN Raise("InternalInconsistency")
                  ELSE bruteforce_select(word2mean_score'))
          ELSE By("MaximumEntropySolver", max_entropy_select(suggest_candidates))

\* CombinedSolver._update_candidates_recursive, run when synced holds
UpdateCandidatesRecursive(synced) ==
    IF kind = "CombinedSolver" /\ synced
    THEN /\ bf_candidates' = candidates'
         /\ me_candidates' = candidates'
         /\ bf_num_candidates' = num_candidates'
         /\ me_num_candidates' = num_candidates'
    ELSE UNCHANGED <<bf_candidates, bf_num_candidates,
                     me_candidates, me_num_candidates>>

\* a reset that restores the candidates only once they have run out
ResetEffect_WhenEmpty ==
    /\ candidates' = IF candidates = <<>> THEN vocab ELSE candidates
    /\ num_candidates' = Len(candidates')
    /\ word2mean_score' =
          IF kind = "MaximumEntropySolver" THEN word2mean_score ELSE <<>>
    /\ IF kind = "CombinedSolver"
       THEN /\ bf_candidates' = VOCAB
            /\ bf_num_candidates' = Len(VOCAB)
            /\ me_candidates' = VOCAB
            /\ me_num_candidates' = Len(VOCAB)
       ELSE UNCHANGED <<bf_candidates, bf_num_candidates,
                        me_candidates, me_num_candidates>>

\* reset() of the object's class
ResetEffect ==
    /\ candidates' = vocab
    /\ num_candidates' = Len(vocab)
    /\ word2mean_score' =
          IF kind = "MaximumEntropySolver" THEN word2mean_score ELSE <<>>
    /\ IF kind = "CombinedSolver"
       THEN /\ bf_candidates' = VOCAB
            /\ bf_num_candidates' = Len(VOCAB)
            /\ me_candidates' = VOCAB
            /\ me_num_candidates' = Len(VOCAB)
       ELSE UNCHANGED <<bf_candidates, bf_num_candidates,
                        me_candidates, me_num_candidates>>

\* feedback(pred, first_hint_name, second_hint_name) of the object's class
FeedbackEffect(pred, first_hint_name, second_hint_name) ==
    LET r == feedback(candidates, pred, first_hint_name, second_hint_name)
    IN  /\ candidates' = r.candidates
        /\ num_candidates' =
              IF r.raised = "None" THEN Len(r.candidates) ELSE num_candidates
        /\ UpdateCandidatesRecursive(r.raised = "None")
        /\ ret' = IF r.raised = "None" THEN NoReturn ELSE Raise(r.raised)

\* a suggest that keeps only the suggested word as candidate
Suggest_Narrowing ==
    /\ pc = "idle"
    /\ SuggestEffect
    /\ candidates' =
          IF ret'.raised = "None" THEN <<ret'.word>> ELSE candidates
    /\ num_candidates' = Len(candidates')
    /\ lastOp' = "suggest"
    /\ args' = NoArgs
    /\ UNCHANGED <<kind, threshold, vocab,
                   bf_candidates, bf_num_candidates, me_candidates,
                   me_num_candidates, solveVars, probeVars, codecVars>>

Suggest ==
    /\ pc = "idle"
    /\ SuggestEffect
    /\ lastOp' = "suggest"
    /\ args' = NoArgs
    /\ UNCHANGED <<kind, threshold, vocab, candidates, num_candidates,
                   bf_candidates, bf_num_candidates, me_candidates,
                   me_num_candidates, solveVars, probeVars, codecVars>>

Feedback(pred, first_hint_name, second_hint_name) ==
    /\ pc = "idle"
    /\ FeedbackEffect(pred, first_hint_name, second_hint_name)
    /\ lastOp' = "feedback"
    /\ args' = [NoArgs EXCEPT !.pred = pred, !.first = first_hint_name,
                              !.second = second_hint_name]
    /\ UNCHANGED <<kind, threshold, vocab, word2mean_score, solveVars, probeVars, codecVars>>

Ban(word) ==
    /\ pc = "idle"
    /\ FeedbackEffect(word, AppleName, AppleName)
    /\ lastOp' = "ban"
    /\ args' = [NoArgs EXCEPT !.pred = word]
    /\ UNCHANGED <<kind, threshold, vocab, word2mean_score, solveVars, probeVars, codecVars>>

FeedbackPumpkinHint(jamo) ==
    /\ pc = "idle"
    /\ candidates' = pumpkin_candidates(candidates, jamo)
    /\ num_candidates' = Len(candidates')
    /\ UpdateCandidatesRecursive(TRUE)
    /\ lastOp' = "feedback_pumpkin_hint"
    /\ args' = [NoArgs EXCEPT !.jamo = jamo]
    /\ ret' = NoReturn
    /\ UNCHANGED <<kind, threshold, vocab, word2mean_score, solveVars, probeVars, codecVars>>

Reset ==
    /\ pc = "idle"
    /\ ResetEffect
    /\ lastOp' = "reset"
    /\ args' = NoArgs
    /\ ret' = NoReturn
    /\ UNCHANGED <<kind, threshold, vocab, solveVars, probeVars, codecVars>>

(***************************************************************************)
(* Solver.solve, one action per step of its loop                           *)
(***************************************************************************)
\* solve is entered: self.reset(), history = []
Solve(word) ==
    /\ pc = "idle"
    /\ ResetEffect
    /\ pc' = "solve_suggest"
    /\ answer' = word
    /\ history' = <<>>
    /\ best_word' = <<>>
    /\ lastOp' = "solve"
    /\ args' = [NoArgs EXCEPT !.pred = word]
    /\ ret' = NoReturn
    /\ UNCHANGED <<kind, threshold, vocab, probeVars, codecVars>>

\* best_word, _ = self.suggest(); history.append(best_word)
SolveSuggest ==
    /\ pc = "solve_suggest"
    /\ SuggestEffect
    /\ IF ret'.raised = "None"
       THEN /\ best_word' = ret'.word
            /\ history' =
                  IF Len(history) < MaxHistory
                  THEN Append(history, ret'.word)
                  ELSE Append(Tail(history), ret'.word)
            /\ pc' = "solve_check"
            /\ UNCHANGED answer
       ELSE /\ pc' = "idle"
            /\ answer' = <<>>
            /\ history' = <<>>
            /\ best_word' = <<>>
    /\ hint_pair' = IF ret'.raised = "None" THEN hint_pair ELSE <<>>
    /\ lastOp' = "solve_suggest"
    /\ UNCHANGED <<kind, threshold, vocab, candidates, num_candidates,
                   bf_candidates, bf_num_candidates, me_candidates,
                   me_num_candidates, args, query, compat, filtered, codecVars>>

\* if best_word == answer: break / return history
SolveReturn ==
    /\ pc = "solve_check"
    /\ best_word = answer
    /\ pc' = "idle"
    /\ ret' = [NoReturn EXCEPT !.history = history]
    /\ answer' = <<>>
    /\ history' = <<>>
    /\ best_word' = <<>>
    /\ hint_pair' = <<>>
    /\ lastOp' = "solve_return"
    /\ UNCHANGED <<solverVars, args, query, compat, filtered, codecVars>>

\* the hint pair of (answer, best_word) filters self.candidates
SolveFilter ==
    /\ pc = "solve_check"
    /\ best_word # answer
    /\ hint_pair' = HintPairClasses(compute_hint_pair(answer, best_word))
    /\ IF NoHint \in SeqToSet(hint_pair')
       THEN /\ pc' = "idle"
            /\ ret' = Raise("InternalInconsistency")
            /\ answer' = <<>>
            /\ history' = <<>>
            /\ best_word' = <<>>
            /\ UNCHANGED <<candidates, num_candidates>>
       ELSE /\ candidates' = filter_candidates(candidates,
                                 Hint(hint_pair'[1], best_word[1], "first"),
                                 Hint(hint_pair'[2], best_word[2], "second"))
            /\ num_candidates' = Len(candidates')
            /\ pc' = "solve_suggest"
            /\ UNCHANGED <<ret, answer, history, best_word>>
    /\ lastOp' = "solve_filter"
    /\ UNCHANGED <<kind, threshold, vocab, bf_candidates, bf_num_candidates,
                   me_candidates, me_num_candidates, word2mean_score, args,
                   query, compat, filtered, codecVars>>

\* the hint-name pairs given to feedback: both names equal, one of them
\* sagwa, or beoseot with gaji
FeedbackHintPairs ==
    {p \in HintNames \X HintNames :
        \/ p[1] = p[2]
        \/ p[1] = AppleName
        \/ p[2] = AppleName
        \/ p = << <<48260, 49455>>, <<44032, 51648>> >>}

\* the guesses given to feedback: gosu and malgeum
FeedbackPreds == {VOCAB[1], VOCAB[3]}

FeedbackInputs ==
    {<<word, p[1], p[2]>> : word \in FeedbackPreds, p \in FeedbackHintPairs}
        \cup {<<word, AppleName, AppleName>> : word \in InvalidPreds}

Next ==
    \/ Suggest
    \/ \E input \in FeedbackInputs : Feedback(input[1], input[2], input[3])
    \/ \E word \in Words : Ban(word)
    \/ \E jamo \in PumpkinJamos : FeedbackPumpkinHint(jamo)
    \/ Reset
    \/ \E word \in Words : Solve(word)
    \/ SolveSuggest
    \/ SolveReturn
    \/ SolveFilter

Spec == Init /\ [][Next]_vars

\* solve is a synchronous loop: once entered, its steps are taken
LiveSpec ==
    Spec /\ WF_vars(SolveSuggest) /\ WF_vars(SolveReturn) /\ WF_vars(SolveFilter)

(***************************************************************************)
(* compute_hint_pair applied once to a pair (true, pred) of probe words    *)
(***************************************************************************)
\* malg, mak, mang, ag, ma, go, su, eum, beob, gwang, galg, gak, sang
ProbeSyllables ==
    {47569, 47561, 47581, 50501, 47560, 44256, 49688, 51020, 48277, 44305,
     44041, 44033, 49345}

ProbeWords == ProbeSyllables \X ProbeSyllables

ComputeHintPair ==
    /\ query # <<>>
    /\ hint_pair = <<>>
    /\ compat' = <<compatible_classes(query[2][1], "first", query[1]),
                   compatible_classes(query[2][2], "second", query[1])>>
    /\ hint_pair' = HintPairClasses(compute_hint_pair(query[1], query[2]))
    /\ filtered' =
          IF NoHint \in SeqToSet(hint_pair')
          THEN <<>>
          ELSE filter_candidates(candidates,
                                 Hint(hint_pair'[1], query[2][1], "first"),
                                 Hint(hint_pair'[2], query[2][2], "second"))
    /\ UNCHANGED <<query, solverVars, solveVars, callVars, codecVars>>

HintInit ==
    /\ Construct("BruteForceSolver", 0)
    /\ query \in ProbeWords \X ProbeWords
    /\ compat = <<>>
    /\ hint_pair = <<>>
    /\ filtered = <<>>
    /\ the_syllable = 0
    /\ jamos = <<>>

HintNext == ComputeHintPair

HintSpec == HintInit /\ [][HintNext]_vars

(***************************************************************************)
(* decompose_hangul applied once to a syllable of the Hangul block         *)
(***************************************************************************)
HangulSyllables == BASE_CODE .. (BASE_CODE + NUM_SYLLABLES - 1)

DecomposeHangul ==
    /\ the_syllable # 0
    /\ jamos = <<>>
    /\ jamos' = decompose_hangul(the_syllable)
    /\ UNCHANGED <<the_syllable, solverVars, solveVars, callVars, probeVars>>

CodecInit ==
    /\ Construct("BruteForceSolver", 0)
    /\ query = <<>>
    /\ compat = <<>>
    /\ hint_pair = <<>>
    /\ filtered = <<>>
    /\ the_syllable \in HangulSyllables
    /\ jamos = <<>>

CodecNext == DecomposeHangul

CodecSpec == CodecInit /\ [][CodecNext]_vars

(***************************************************************************)
(* Properties                                                              *)
(***************************************************************************)
\* a is b with some elements left out
RECURSIVE IsSubseq(_, _)
IsSubseq(a, b) ==
    IF a = <<>> THEN TRUE
    ELSE IF b = <<>> THEN FALSE
    ELSE IF Head(a) = Head(b) THEN IsSubseq(Tail(a), Tail(b))
    ELSE IsSubseq(a, Tail(b))

\* the code point lies in the block of the 11,172 Hangul syllables
InHangulBlock(c) == 44032 <= c /\ c <= 55203

\* C1: for a reference syllable taken from the guess at either position and
\* a true word of Hangul syllables, exactly one of the six hints accepts the
\* word, so that deriving the hint pair never ends without a hint.
C1_ExactlyOneHintAccepts ==
    hint_pair # <<>> =>
        /\ Cardinality(compat[1]) = 1
        /\ Cardinality(compat[2]) = 1
        /\ hint_pair[1] \in compat[1]
        /\ hint_pair[2] \in compat[2]

\* the true word ag-ma against the guess malg-mak: Garlic at the first
\* position, Mushroom at the second
C1_Witness ==
    /\ query = << <<50501, 47560>>, <<47569, 47561>> >>
    /\ compat = <<{"Garlic"}, {"Mushroom"}>>
    /\ hint_pair = <<"Garlic", "Mushroom">>

\* the operations that filter the candidates of a running session
Filtering == {"feedback", "ban", "feedback_pumpkin_hint"}

\* C3: a feedback, ban or feedback_pumpkin_hint call leaves a sub-list of the
\* candidates it found: no word is added and the count does not grow.
C3_CandidatesNeverGrow ==
    [][lastOp' \in Filtering =>
        /\ IsSubseq(candidates', candidates)
        /\ num_candidates' <= num_candidates]_vars

\* a second filtering call has shrunk an already shrunk candidate list
C3_Witness ==
    /\ lastOp = "feedback_pumpkin_hint"
    /\ args.jamo = 12623
    /\ num_candidates = 1

\* the hint of the given name, bound to the syllable at the position,
\* accepts the word
Accepts(name, syllable, position, word) ==
    can_be_answer(Hint(HINT_BY_NAME[name], syllable, position), word)

\* C4: feedback(pred, h1, h2) keeps, in their order, exactly the candidates
\* that both the hint h1 bound to pred[0] at the first position and the hint
\* h2 bound to pred[1] at the second position accept.
C4_FeedbackKeepsExactlyCompatible ==
    [][(lastOp' = "feedback" /\ ret'.raised = "None") =>
        /\ IsSubseq(candidates', candidates)
        /\ num_candidates' = Len(candidates')
        /\ \A k \in DOMAIN candidates :
              (candidates[k] \in SeqToSet(candidates')) <=>
                  /\ Accepts(args'.first, args'.pred[1], "first", candidates[k])
                  /\ Accepts(args'.second, args'.pred[2], "second", candidates[k])
       ]_vars

\* feedback(gosu, gaji, sagwa) has kept some candidates and removed others
C4_Witness ==
    /\ lastOp = "feedback"
    /\ ret.raised = "None"
    /\ args.pred = <<44256, 49688>>
    /\ args.first = <<44032, 51648>>
    /\ args.second = AppleName
    /\ 0 < num_candidates
    /\ num_candidates < Len(vocab)

\* C5: when the guess equals the true word the derived hint pair is Carrot
\* at both positions, and filtering the candidates with that pair keeps the
\* true word if it is a candidate.
C5_SelfMatchIsCarrot ==
    (hint_pair # <<>> /\ query[1] = query[2]) =>
        /\ hint_pair = <<"Carrot", "Carrot">>
        /\ query[1] \in SeqToSet(candidates) => query[1] \in SeqToSet(filtered)

\* malgeum guessed against malgeum, a candidate
C5_Witness ==
    /\ query = << <<47569, 51020>>, <<47569, 51020>> >>
    /\ query[1] \in SeqToSet(candidates)
    /\ hint_pair = <<"Carrot", "Carrot">>
    /\ filtered = << <<47569, 51020>> >>

\* pred is a word of exactly two Hangul syllables
WellFormed(pred) ==
    Len(pred) = 2 /\ \A k \in DOMAIN pred : InHangulBlock(pred[k])

\* C6: feedback with a pred that is not two Hangul syllables raises and
\* leaves candidates and num_candidates, and those of the sub-solvers of a
\* CombinedSolver, as they were.
C6_InvalidPredChangesNothing ==
    [][(lastOp' = "feedback" /\ ~WellFormed(args'.pred)) =>
        /\ ret'.raised = "ValueError"
        /\ candidates' = candidates
        /\ num_candidates' = num_candidates
        /\ bf_candidates' = bf_candidates
        /\ bf_num_candidates' = bf_num_candidates
        /\ me_candidates' = me_candidates
        /\ me_num_candidates' = me_num_candidates]_vars

\* feedback with the guess malg-giyeok was refused by a CombinedSolver that
\* had already narrowed its candidates
C6_Witness ==
    /\ lastOp = "feedback"
    /\ args.pred = <<47569, 12593>>
    /\ ret.raised = "ValueError"
    /\ kind = "CombinedSolver"
    /\ num_candidates = 2

\* C7: reset (also the one solve starts with) makes the candidates those the
\* solver had at construction.
C7_ResetRestoresCandidates ==
    [][lastOp' \in {"reset", "solve"} =>
        /\ candidates' = VOCAB
        /\ num_candidates' = Len(VOCAB)]_vars

\* a reset has run
C7_Witness ==
    /\ lastOp = "reset"
    /\ candidates = VOCAB
    /\ kind = "MaximumEntropySolver"

\* C8: suggest, called directly or by solve, leaves the candidates,
\* num_candidates and the vocabulary as they were.
C8_SuggestIsReadOnly ==
    [][lastOp' \in {"suggest", "solve_suggest"} =>
        /\ candidates' = candidates
        /\ num_candidates' = num_candidates
        /\ vocab' = vocab]_vars

\* a suggestion was returned from a narrowed candidate list
C8_Witness ==
    /\ lastOp = "suggest"
    /\ ret.raised = "None"
    /\ num_candidates = 3

\* C2: solve(answer), for an answer among the initial candidates, ends, and
\* the history it returns ends with the answer.
C2_SolveTerminates ==
    (lastOp = "solve" /\ answer \in SeqToSet(VOCAB))
        ~> (lastOp = "solve_return"
            /\ ret.history # <<>>
            /\ ret.history[Len(ret.history)] = args.pred)

\* C9: suggest, called directly or by solve, on an empty candidate list
\* raises an error and returns no word.
C9_SuggestOnEmptyFails ==
    [][(lastOp' \in {"suggest", "solve_suggest"} /\ candidates = <<>>) =>
        ret'.raised # "None"]_vars

\* the labels that make a word eligible as a candidate
Eligible == {"possible", "maybe_possible"}

\* C10: after construction and after a reset the candidates are exactly the
\* vocabulary words with an eligible label, and no word labelled impossible
\* or maybe_impossible is ever a candidate.
C10_CandidatesAreEligible ==
    /\ lastOp \in {"init", "reset"} =>
          candidates = SelectSeq(vocab, LAMBDA word : Label(word) \in Eligible)
    /\ \A k \in DOMAIN candidates : Label(candidates[k]) \in Eligible

\* C11: feedback is idempotent under identical hints: once feedback(pred,
\* h1, h2) has filtered the candidates, the same call on the filtered list
\* returns and keeps every candidate.
C11_FeedbackIsIdempotent ==
    (lastOp = "feedback" /\ ret.raised = "None") =>
        feedback(candidates, args.pred, args.first, args.second)
            = [raised |-> "None", candidates |-> candidates]

\* feedback(malgeum, beoseot, gaji) has kept maksang and mangsang of the
\* four candidates, which a second identical call filters again
C11_Witness ==
    /\ lastOp = "feedback"
    /\ ret.raised = "None"
    /\ args.pred = <<47569, 51020>>
    /\ args.first = <<48260, 49455>>
    /\ args.second = <<44032, 51648>>
    /\ candidates = << <<47561, 49345>>, <<47581, 49345>> >>
    /\ feedback(candidates, args.pred, args.first, args.second).candidates
           = candidates

\* the number of distinct jamos of the reference syllable that occur among
\* the jamos of the other syllable
SharedCount(reference, syllable) ==
    Cardinality({j \in SeqToSet(decompose_hangul(reference)) :
        \E k \in DOMAIN decompose_hangul(syllable) :
            decompose_hangul(syllable)[k] = j})

\* the condition under which a hint of the class, built from the reference
\* syllable, is defined to accept the direct and the indirect syllable
HintDefinition(cls, reference, direct, indirect) ==
    CASE cls = "Apple" ->
            SharedCount(reference, direct) = 0 /\ SharedCount(reference, indirect) = 0
      [] cls = "Banana" ->
            SharedCount(reference, direct) = 0 /\ SharedCount(reference, indirect) >= 1
      [] cls = "Eggplant" ->
            SharedCount(reference, direct) = 1
      [] cls = "Garlic" ->
            /\ SharedCount(reference, direct) >= 2
            /\ direct # reference
            /\ extract_chosung(direct) # extract_chosung(reference)
      [] cls = "Mushroom" ->
            /\ SharedCount(reference, direct) >= 2
            /\ direct # reference
            /\ extract_chosung(direct) = extract_chosung(reference)
      [] cls = "Carrot" ->
            direct = reference

\* C12: each of the six hints, built from a syllable of the guess at its
\* position, accepts the true word exactly when the word's direct and
\* indirect syllables meet the definition of the hint.
C12_HintsAcceptByDefinition ==
    hint_pair # <<>> =>
        \A p \in {1, 2} : \A k \in DOMAIN HintClasses :
            (HintClasses[k] \in compat[p]) <=>
                HintDefinition(HintClasses[k], query[2][p],
                               query[1][p], query[1][3 - p])

\* the true word ag-ma against the guess malg-ma: Garlic accepts at the
\* first position, Carrot at the second
C12_Witness ==
    /\ query = << <<50501, 47560>>, <<47569, 47560>> >>
    /\ compat = <<{"Garlic"}, {"Carrot"}>>
    /\ HintDefinition("Garlic", 47569, 50501, 47560)
    /\ ~HintDefinition("Mushroom", 47569, 50501, 47560)

\* C13 as the specification states it: with the reference syllable malg at
\* the first position, Apple accepts gosu, Carrot accepts malgeum and Garlic
\* accepts agma.
C13_ExamplesAsStated ==
    (hint_pair # <<>> /\ query[2][1] = 47569) =>
        /\ query[1] = <<44256, 49688>> => "Apple" \in compat[1]
        /\ query[1] = <<47569, 51020>> => "Carrot" \in compat[1]
        /\ query[1] = <<50501, 47560>> => "Garlic" \in compat[1]

\* C13: with the reference syllable malg at the first position, Apple does
\* not accept gosu (go shares giyeok with malg) and Eggplant alone does, while
\* Carrot alone accepts malgeum and Garlic alone accepts agma.
C13_ExamplesOfMalg ==
    (hint_pair # <<>> /\ query[2][1] = 47569) =>
        /\ query[1] = <<44256, 49688>> => compat[1] = {"Eggplant"}
        /\ query[1] = <<47569, 51020>> => compat[1] = {"Carrot"}
        /\ query[1] = <<50501, 47560>> => compat[1] = {"Garlic"}

\* the hints of the guess malg-eum were tried on the true word gosu
C13_Witness ==
    /\ query = << <<44256, 49688>>, <<47569, 51020>> >>
    /\ hint_pair # <<>>
    /\ "Apple" \notin compat[1]
    /\ "Eggplant" \in compat[1]

\* the jamo itself, or its two parts when the split table has it
Parts(jamo, split) == IF jamo \in DOMAIN split THEN split[jamo] ELSE <<jamo>>

\* initial, medial parts, final parts of the syllable at the offset from
\* 0xAC00
Decomposition(offset) ==
    <<CHOSUNGS[(offset \div 588) + 1]>>
    \o Parts(JUNGSUNGS[((offset % 588) \div 28) + 1], JUNGSUNG_SPLIT_MAP)
    \o (IF offset % 28 = 0
        THEN <<>>
        ELSE Parts(JONGSUNGS[(offset % 28) + 1], JONGSUNG_SPLIT_MAP))

\* C14: decompose_hangul of a syllable of the Hangul block is its initial,
\* the parts of its medial and the parts of its final (none when the final
\* index is 0), indexed by the offset from 0xAC00; gak, gang, galg and gwang
\* decompose as the examples say.
C14_DecomposeHangul ==
    jamos # <<>> =>
        /\ jamos = Decomposition(the_syllable - 44032)
        /\ the_syllable = 44033 => jamos = <<12593, 12623, 12593>>
        /\ the_syllable = 44053 => jamos = <<12593, 12623, 12615>>
        /\ the_syllable = 44041 => jamos = <<12593, 12623, 12601, 12593>>
        /\ the_syllable = 44305 => jamos = <<12593, 12631, 12623, 12615>>

\* galg, with its compound final, has been decomposed
C14_Witness ==
    /\ the_syllable = 44041
    /\ jamos = <<12593, 12623, 12601, 12593>>

\* the number of candidates that both hints derived for (true, pred) accept
Remaining(cands, true, pred) ==
    Cardinality({k \in DOMAIN cands :
        /\ can_be_answer(compute_hint_pair(true, pred)[1], cands[k])
        /\ can_be_answer(compute_hint_pair(true, pred)[2], cands[k])})

\* the sum of Remaining over the true words from the k-th candidate on
RECURSIVE TotalRemaining(_, _, _)
TotalRemaining(k, cands, pred) ==
    IF k > Len(cands)
    THEN 0
    ELSE Remaining(cands, cands[k], pred) + TotalRemaining(k + 1, cands, pred)

\* a < b in the lexicographic order of words
LexLess(a, b) ==
    \E k \in DOMAIN a :
        /\ k \in DOMAIN b
        /\ a[k] < b[k]
        /\ \A j \in 1..(k - 1) : a[j] = b[j]

\* C15: BruteForceSolver.suggest on a non-empty candidate list returns a
\* candidate whose mean number of remaining candidates, over every assumed
\* true word, is minimal, the lexicographically smallest of the candidates
\* with that mean, together with that mean (total over count).
C15_BruteForceSelectsMinimalMean ==
    [][(/\ lastOp' \in {"suggest", "solve_suggest"}
        /\ suggest_by_bruteforce
        /\ suggest_candidates # <<>>) =>
        /\ ret'.raised = "None"
        /\ ret'.word \in SeqToSet(suggest_candidates)
        /\ ret'.count = Len(suggest_candidates)
        /\ ret'.total = TotalRemaining(1, suggest_candidates, ret'.word)
        /\ \A k \in DOMAIN suggest_candidates :
              /\ ret'.total <= TotalRemaining(1, suggest_candidates, suggest_candidates[k])
              /\ ret'.total = TotalRemaining(1, suggest_candidates, suggest_candidates[k])
                    => (ret'.word = suggest_candidates[k]
                        \/ LexLess(ret'.word, suggest_candidates[k]))
       ]_vars

\* a BruteForceSolver has suggested one of several candidates although
\* another candidate has the same mean and a third one a greater mean
C15_Witness ==
    /\ lastOp = "suggest"
    /\ kind = "BruteForceSolver"
    /\ ret.raised = "None"
    /\ \E k \in DOMAIN candidates :
          /\ candidates[k] # ret.word
          /\ TotalRemaining(1, candidates, candidates[k]) = ret.total
    /\ \E k \in DOMAIN candidates :
          TotalRemaining(1, candidates, candidates[k]) > ret.total

\* C16: CombinedSolver.suggest runs the brute-force solver exactly when the
\* number of candidates is at most the threshold and the maximum-entropy
\* solver exactly when it is greater; higher_is_better is false in the
\* first case and true in the second.
C16_StrategyFollowsThreshold ==
    [][(lastOp' \in {"suggest", "solve_suggest"} /\ kind = "CombinedSolver") =>
        /\ Len(candidates) <= threshold =>
              (ret'.by = "BruteForceSolver" /\ ~higher_is_better)
        /\ Len(candidates) > threshold =>
              (ret'.by = "MaximumEntropySolver" /\ higher_is_better)
       ]_vars

\* a CombinedSolver with exactly as many candidates as its threshold has
\* suggested by brute force
C16_Witness ==
    /\ lastOp = "suggest"
    /\ kind = "CombinedSolver"
    /\ Len(candidates) = threshold
    /\ ret.by = "BruteForceSolver"
    /\ ret.raised = "None"

\* C17: whenever CombinedSolver.suggest runs, called directly or from the
\* loop of solve, the candidates of its brute-force and maximum-entropy
\* solvers are the candidates of the CombinedSolver itself.
C17_SubSolversInSync ==
    [][(lastOp' \in {"suggest", "solve_suggest"} /\ kind = "CombinedSolver") =>
        /\ bf_candidates = candidates
        /\ bf_num_candidates = num_candidates
        /\ me_candidates = candidates
        /\ me_num_candidates = num_candidates]_vars

\* C18: when solve filters with the hint pair derived for (answer,
\* best_word), the suggested word being a candidate other than the answer
\* and the answer being a candidate, the answer stays a candidate, the
\* suggested word does not, and the number of candidates decreases.
C18_SolveIterationShrinks ==
    [][(/\ lastOp' = "solve_filter"
        /\ best_word \in SeqToSet(candidates)
        /\ best_word # answer
        /\ answer \in SeqToSet(candidates)) =>
        /\ answer \in SeqToSet(candidates')
        /\ best_word \notin SeqToSet(candidates')
        /\ Len(candidates') < Len(candidates)
        /\ num_candidates' < num_candidates]_vars

\* the first iteration of solve(mangsang) has filtered the whole vocabulary
\* with the hints of its suggestion maksang, which shares its second
\* syllable with the answer
C18_Witness ==
    /\ lastOp = "solve_filter"
    /\ pc = "solve_suggest"
    /\ Len(history) = 1
    /\ answer = <<47581, 49345>>
    /\ best_word = <<47561, 49345>>
    /\ hint_pair = <<"Mushroom", "Carrot">>
    /\ answer \in SeqToSet(candidates)
    /\ best_word \notin SeqToSet(candidates)

====
